---- MODULE Spec2Model ----
(***************************************************************************)
(* The vault hook of password-manager/src/hooks/useVault.ts as a state     *)
(* machine.  Every async handler is split at its awaits: the synchronous   *)
(* prefix of a call is one action, each resumption after an await is       *)
(* another, and other handlers may run in between.  React state is taken   *)
(* as rendered between any two steps, so a call closes over the current    *)
(* value of `entries` and `metadata`.                                      *)
(*                                                                         *)
(* @/lib/crypto is not part of the sources at hand; KeyDerivation and the  *)
(* AuthenticatedCipher are modelled from sections 4.1 and 4.2 of the       *)
(* design: a key is the triple it was derived from, a ciphertext opens     *)
(* only under the key and nonce that made it.                              *)
(***************************************************************************)
EXTENDS Integers, Sequences, FiniteSets, Bags, TLC

\* ------------------------------------------------------------------ bounds
MaxInFlight == 2   \* async calls suspended at an await at the same time
MaxRnd == 2        \* values drawn from the random source (salt, nonce, uuid)

\* --------------------------------------------------------------- JS values
\* null where an object is expected (keyRef, metadata, a parsed record).
Null == [null |-> TRUE]
\* undefined where a string is expected (an optional property of an entry).
Undefined == <<"undefined">>
\* null in the `error` state (string | null) and in `lastUpdated` (number | null).
NoError == "(null)"
NoTime == -1
\* localStorage.getItem of a key that is not set.
NoItem == <<>>

Passwords == {"p", "q"}

\* Passwords of entries: one that stats counts as strong, and one for each
\* way of being weak alone (no digit, no symbol, one character short).
Letters12 == <<"A", "b", "c", "d", "e", "f", "g", "h", "i", "j", "k", "l">>
StrongPassword == Letters12 \o <<"1", "!">>
NoDigitPassword == Letters12 \o <<"m", "!">>
NoSymbolPassword == Letters12 \o <<"1", "2">>
ShortPassword == Tail(StrongPassword)

\* String.prototype.trim on a string given as a sequence of characters.
RECURSIVE TrimLeft(_)
TrimLeft(s) ==
    IF s # <<>> /\ Head(s) = " " THEN TrimLeft(Tail(s)) ELSE s

RECURSIVE TrimRight(_)
TrimRight(s) ==
    IF s # <<>> /\ s[Len(s)] = " " THEN TrimRight(SubSeq(s, 1, Len(s) - 1)) ELSE s

Trim(s) == TrimRight(TrimLeft(s))

\* value?.trim()
OptTrim(v) == IF v = Undefined THEN Undefined ELSE Trim(v)

\* tags.map((tag) => tag.trim()).filter(Boolean)
RECURSIVE TrimTags(_)
TrimTags(tags) ==
    IF tags = <<>> THEN <<>>
    ELSE LET t == Trim(Head(tags))
         IN  IF t = <<>> THEN TrimTags(Tail(tags)) ELSE <<t>> \o TrimTags(Tail(tags))

\* Property read: a missing property reads as undefined.
Get(o, f) == IF f \in DOMAIN o THEN o[f] ELSE Undefined

\* a ?? b
Coalesce(a, b) == IF a = Undefined THEN b ELSE a

\* { ...a, ...b }
Spread(a, b) ==
    [f \in (DOMAIN a) \cup (DOMAIN b) |-> IF f \in DOMAIN b THEN b[f] ELSE a[f]]

\* new Date(t).toISOString()
ISO(t) == <<"iso", t>>

\* The identifier safeUUID() makes of a draw of the random source.
UUID(r) == <<"id", r>>

\* ------------------------------------------------------------------- JSON
\* JSON.stringify drops the properties whose value is undefined.
DropUndefined(o) == [f \in {g \in DOMAIN o : o[g] # Undefined} |-> o[f]]

StringifyEntries(list) == [i \in DOMAIN list |-> DropUndefined(list[i])]

\* JSON.stringify({ entries }): a JSON text is tagged "json" and carries the
\* value as JSON keeps it.
StringifyPayload(list) == <<"json", [entries |-> StringifyEntries(list)]>>

\* JSON.stringify(record)
StringifyRecord(record) == <<"json", record>>

\* JSON.parse(text) throws on anything that is not a JSON text.
IsJSON(text) == Len(text) = 2 /\ text[1] = "json"
Parse(text) == text[2]

\* ----------------------------------------------------------------- crypto
DEFAULT_ITERATIONS == 310000

\* bufferToBase64 / base64ToArrayBuffer
bufferToBase64(buf) == <<"b64", buf>>
base64ToArrayBuffer(s) == s[2]

\* deriveKey(password, salt, iterations): deterministic, rejects iterations < 1.
DeriveKeyOk(iterations) == iterations >= 1
deriveKey(password, salt, iterations) ==
    [pw |-> password, salt |-> salt, it |-> iterations]

\* encryptWithKey(plaintext, key) with the nonce it drew.
encryptWithKey(plaintext, key, nonce) ==
    [data |-> [k |-> key, n |-> nonce, pt |-> plaintext, intact |-> TRUE],
     iv   |-> nonce]

\* decryptWithKey(data, iv, key): the plaintext, or an authentication failure.
DecryptOk(data, iv, key) == data.intact /\ data.k = key /\ data.n = iv
decryptWithKey(data, iv, key) == data.pt

\* ------------------------------------------------------------------ state
VARIABLES
    phase,        \* useState<VaultPhase>
    entries,      \* useState<VaultEntry[]>
    error,        \* useState<string | null>
    metadata,     \* useState<VaultMetadata | null>
    lastUpdated,  \* useState<number | null>
    keyRef,       \* useRef<CryptoKey | null>
    metaRef,      \* useRef<VaultMetadata | null>
    store,        \* localStorage[STORAGE_KEY]
    calls,        \* the async calls suspended at an await, with their locals
    rnd           \* values drawn so far from the random source

vars == <<phase, entries, error, metadata, lastUpdated, keyRef, metaRef, store,
          calls, rnd>>

InFlight == BagToSet(calls)
NoCallInFlight == calls = EmptyBag
\* Room for one more suspended call.
CanSuspend == BagCardinality(calls) < MaxInFlight
Suspend(c) == calls (+) SetToBag({c})
Resume(c) == calls (-) SetToBag({c})

\* How a step of a handler ends for its caller: the call is suspended at an
\* await ("pending"), unlockVault returns true or false, another handler
\* returns its value ("returned"), or the call throws: "Vault is locked",
\* "Entry not found", or what the cipher or the store threw ("threw").
Results ==
    {"pending", "true", "false", "returned", "threw", "Vault is locked",
     "Entry not found"}

\* parseRecord(value)
parseRecord(value) ==
    IF value = NoItem THEN Null
    ELSE IF IsJSON(value) THEN Parse(value) ELSE Null

\* ------------------------------------------------- records of a past session
\* What the program finds in the store when it starts: nothing, the record
\* an earlier session wrote for a vault under password "p", that record with
\* a bit of its ciphertext flipped or with another nonce, a record whose
\* plaintext is no JSON, or bytes that are no record.
PriorEntry ==
    [id |-> UUID(0), title |-> <<"M">>, username |-> <<"a">>,
     password |-> StrongPassword, tags |-> << <<"w">> >>,
     createdAt |-> ISO(0), updatedAt |-> ISO(0)]

PriorRecord(plaintext) ==
    LET enc == encryptWithKey(plaintext,
                              deriveKey("p", 0, DEFAULT_ITERATIONS), 0)
    IN  [version |-> 1, iterations |-> DEFAULT_ITERATIONS,
         salt |-> bufferToBase64(0), data |-> enc.data, iv |-> enc.iv,
         lastUpdated |-> 0]

Garbage == <<"garbage">>

PriorVault == PriorRecord(StringifyPayload(<<PriorEntry>>))

FlippedCiphertext(record) ==
    [record EXCEPT !.data = [record.data EXCEPT !.intact = FALSE]]

OtherNonce(record) == [record EXCEPT !.iv = record.iv - 1]

InitialStores ==
    { NoItem,
      Garbage,
      StringifyRecord(PriorVault),
      StringifyRecord(FlippedCiphertext(PriorVault)),
      StringifyRecord(OtherNonce(PriorVault)),
      StringifyRecord(PriorRecord(Garbage)) }

Init ==
    /\ phase = "initializing"
    /\ entries = <<>>
    /\ error = NoError
    /\ metadata = Null
    /\ lastUpdated = NoTime
    /\ keyRef = Null
    /\ metaRef = Null
    /\ store \in InitialStores
    /\ calls = EmptyBag
    /\ rnd = 0

\* The mount effect has run: React runs it before any handler can be called.
Mounted == phase # "initializing"

\* Mutant of Bootstrap: a stored value that does not parse is removed.
Bootstrap_Wipes ==
    /\ phase = "initializing"
    /\ LET stored == parseRecord(store)
       IN  IF stored = Null
           THEN /\ metaRef' = Null
                /\ metadata' = Null
                /\ phase' = "setup"
                /\ store' = NoItem
                /\ UNCHANGED lastUpdated
           ELSE /\ metaRef' = [salt |-> stored.salt, iterations |-> stored.iterations]
                /\ metadata' = metaRef'
                /\ lastUpdated' = stored.lastUpdated
                /\ phase' = "locked"
                /\ UNCHANGED store
    /\ UNCHANGED <<entries, error, keyRef, calls, rnd>>

\* useEffect(() => { ... }, [syncMetadata])
Bootstrap ==
    /\ phase = "initializing"
    /\ LET stored == parseRecord(store)
       IN  IF stored = Null
           THEN /\ metaRef' = Null
                /\ metadata' = Null
                /\ phase' = "setup"
                /\ UNCHANGED lastUpdated
           ELSE /\ metaRef' = [salt |-> stored.salt, iterations |-> stored.iterations]
                /\ metadata' = metaRef'
                /\ lastUpdated' = stored.lastUpdated
                /\ phase' = "locked"
    /\ UNCHANGED <<entries, error, keyRef, store, calls, rnd>>

\* Date.now(): the clock is read in units of draws of the random source, so
\* it never runs backwards and has moved on whenever a value was drawn; the
\* past session's timestamps (0) lie before every instant of this one.
Now == rnd + 1

\* ------------------------------------------------------------ initialize
InitializeError == "Unable to initialize vault. Please try again."

\* initializeVault(password) up to its first await.  The awaits on deriveKey
\* and encryptWithKey follow each other with only locals in between, so the
\* call is suspended once, with the salt and the nonce it draws.
InitializeVault(password) ==
    /\ Mounted
    /\ CanSuspend
    /\ rnd + 2 <= MaxRnd
    /\ error' = NoError
    /\ phase' = "unlocking"
    /\ rnd' = rnd + 2
    /\ calls' = Suspend([op |-> "initializeVault", password |-> password,
                         saltBuffer |-> rnd + 1, iterations |-> DEFAULT_ITERATIONS,
                         nonce |-> rnd + 2])
    /\ UNCHANGED <<entries, metadata, lastUpdated, keyRef, metaRef, store>>

\* Mutant of InitialRecord: the record carries a fixed salt, not the one the
\* key was derived with.
InitialRecord_ReusedSalt(saltBuffer, iterations, enc, t) ==
    [version |-> 1, iterations |-> iterations, salt |-> bufferToBase64(0),
     data |-> enc.data, iv |-> enc.iv, lastUpdated |-> t]

\* The record initializeVault writes (lines 130-138).
InitialRecord(saltBuffer, iterations, enc, t) ==
    [version |-> 1, iterations |-> iterations, salt |-> bufferToBase64(saltBuffer),
     data |-> enc.data, iv |-> enc.iv, lastUpdated |-> t]

\* Mutant of InitializeFailed: the record is written before encryption is
\* known to have succeeded, so a failure leaves a record without ciphertext.
InitializeFailed_HalfWritten(c) ==
    /\ error' = InitializeError
    /\ phase' = "setup"
    /\ store' = StringifyRecord([version |-> 1, iterations |-> c.iterations,
                                 salt |-> bufferToBase64(c.saltBuffer)])
    /\ UNCHANGED <<keyRef, metaRef, metadata, entries, lastUpdated>>

\* initializeVault, catch block (lines 146-151): deriveKey, encryptWithKey or
\* setItem threw, so nothing of lines 140-145 has taken effect.
InitializeFailed(c) ==
    /\ error' = InitializeError
    /\ phase' = "setup"
    /\ UNCHANGED <<store, keyRef, metaRef, metadata, entries, lastUpdated>>

\* initializeVault resumes: it writes the record and installs key, metadata,
\* entries and phase (lines 140-145); or deriveKey, encryptWithKey or setItem
\* threw and the catch block runs (lines 146-151).
InitializeResumed(c, outcome, result) ==
    /\ c \in InFlight
    /\ c.op = "initializeVault"
    /\ result = IF outcome = "ok" THEN "returned" ELSE "threw"
    /\ IF outcome = "ok"
       THEN LET cryptoKey == deriveKey(c.password, c.saltBuffer, c.iterations)
                enc == encryptWithKey(StringifyPayload(<<>>), cryptoKey, c.nonce)
                record == InitialRecord(c.saltBuffer, c.iterations, enc, Now)
            IN  /\ store' = StringifyRecord(record)
                /\ keyRef' = cryptoKey
                /\ metaRef' = [salt |-> record.salt, iterations |-> c.iterations]
                /\ metadata' = metaRef'
                /\ entries' = <<>>
                /\ lastUpdated' = record.lastUpdated
                /\ phase' = "unlocked"
                /\ UNCHANGED error
       ELSE InitializeFailed(c)
    /\ calls' = Resume(c)
    /\ UNCHANGED rnd

\* ---------------------------------------------------------------- unlock
UnlockError == "Invalid master password. Please try again."

\* Mutant of UnlockFailed: the catch block shows the caller what was thrown.
UnlockFailed_Leaky(err, result) ==
    /\ error' = err
    /\ phase' = "locked"
    /\ result = "false"

\* Mutant of UnlockFailed: the catch block leaves the phase as it is.
UnlockFailed_Stuck(err, result) ==
    /\ error' = UnlockError
    /\ UNCHANGED phase
    /\ result = "false"

\* unlockVault, catch block (lines 186-191); `err` is what was thrown.
UnlockFailed(err, result) ==
    /\ error' = UnlockError
    /\ phase' = "locked"
    /\ result = "false"

\* unlockVault(password) up to its first await; without a record it throws
\* "Vault not found" into its own catch block.
UnlockVault(password, result) ==
    /\ Mounted
    /\ CanSuspend
    /\ LET record == parseRecord(store)
       IN  IF record = Null
           THEN /\ metaRef' = Null
                /\ metadata' = Null
                /\ entries' = <<>>
                /\ UnlockFailed("Vault not found", result)
                /\ UNCHANGED calls
           ELSE /\ error' = NoError
                /\ phase' = "unlocking"
                /\ result = "pending"
                /\ calls' = Suspend([op |-> "unlockVault", password |-> password,
                                     record |-> record])
                /\ UNCHANGED <<metaRef, metadata, entries>>
    /\ UNCHANGED <<lastUpdated, keyRef, store, rnd>>

\* Mutant of UnlockPayload: a failed decryption is swallowed and read as an
\* empty vault.
UnlockPayload_Swallowed(record, cryptoKey) ==
    IF ~DecryptOk(record.data, record.iv, cryptoKey)
    THEN [ok |-> TRUE, payload |-> [entries |-> <<>>]]
    ELSE LET decrypted == decryptWithKey(record.data, record.iv, cryptoKey)
         IN  IF IsJSON(decrypted)
             THEN [ok |-> TRUE, payload |-> Parse(decrypted)]
             ELSE [ok |-> FALSE, err |-> "payload is not JSON"]

\* What lines 177-178 make of the record under a key: the payload, or the
\* error decryptWithKey or JSON.parse threw.
UnlockPayload(record, cryptoKey) ==
    IF ~DecryptOk(record.data, record.iv, cryptoKey)
    THEN [ok |-> FALSE, err |-> "authentication failure"]
    ELSE LET decrypted == decryptWithKey(record.data, record.iv, cryptoKey)
         IN  IF IsJSON(decrypted)
             THEN [ok |-> TRUE, payload |-> Parse(decrypted)]
             ELSE [ok |-> FALSE, err |-> "payload is not JSON"]

\* Mutant of UnlockWith: a key that is already held is used again instead
\* of the one derived from the password given.
UnlockWith_HeldKey(record, password) ==
    IF ~DeriveKeyOk(record.iterations)
    THEN [ok |-> FALSE, err |-> "iterations rejected"]
    ELSE LET cryptoKey == IF keyRef # Null THEN keyRef
                          ELSE deriveKey(password, base64ToArrayBuffer(record.salt),
                                         record.iterations)
             got == UnlockPayload(record, cryptoKey)
         IN  IF got.ok
             THEN [ok |-> TRUE, payload |-> got.payload, cryptoKey |-> cryptoKey]
             ELSE got

\* Lines 171-178: the key derived from the password and the record's salt
\* and iteration count, and what it opens.
UnlockWith(record, password) ==
    IF ~DeriveKeyOk(record.iterations)
    THEN [ok |-> FALSE, err |-> "iterations rejected"]
    ELSE LET cryptoKey == deriveKey(password, base64ToArrayBuffer(record.salt),
                                    record.iterations)
             got == UnlockPayload(record, cryptoKey)
         IN  IF got.ok
             THEN [ok |-> TRUE, payload |-> got.payload, cryptoKey |-> cryptoKey]
             ELSE got

\* payload.entries ?? []
PayloadEntries(payload) ==
    IF "entries" \in DOMAIN payload THEN payload.entries ELSE <<>>

\* Mutant of UnlockResumed: phase, metadata and entries are installed, the
\* key is not.
UnlockResumed_PhaseFirst(c, result) ==
    /\ c \in InFlight
    /\ c.op = "unlockVault"
    /\ LET got == UnlockWith(c.record, c.password)
       IN  IF got.ok
           THEN /\ metaRef' = [salt |-> c.record.salt, iterations |-> c.record.iterations]
                /\ metadata' = metaRef'
                /\ entries' = PayloadEntries(got.payload)
                /\ lastUpdated' = c.record.lastUpdated
                /\ phase' = "unlocked"
                /\ result = "true"
                /\ UNCHANGED <<error, keyRef>>
           ELSE /\ UnlockFailed(got.err, result)
                /\ UNCHANGED <<keyRef, metaRef, metadata, entries, lastUpdated>>
    /\ calls' = Resume(c)
    /\ UNCHANGED <<store, rnd>>

\* unlockVault resumes after deriveKey and decryptWithKey (the two awaits
\* follow each other with only locals in between).
UnlockResumed(c, result) ==
    /\ c \in InFlight
    /\ c.op = "unlockVault"
    /\ LET got == UnlockWith(c.record, c.password)
       IN  IF got.ok
           THEN /\ keyRef' = got.cryptoKey
                /\ metaRef' = [salt |-> c.record.salt, iterations |-> c.record.iterations]
                /\ metadata' = metaRef'
                /\ entries' = PayloadEntries(got.payload)
                /\ lastUpdated' = c.record.lastUpdated
                /\ phase' = "unlocked"
                /\ result = "true"
                /\ UNCHANGED error
           ELSE /\ UnlockFailed(got.err, result)
                /\ UNCHANGED <<keyRef, metaRef, metadata, entries, lastUpdated>>
    /\ calls' = Resume(c)
    /\ UNCHANGED <<store, rnd>>

\* ---------------------------------------------------------- lock and reset
\* Mutant of LockVault: the key stays in keyRef.
LockVault_KeepsKey ==
    /\ Mounted
    /\ entries' = <<>>
    /\ error' = NoError
    /\ phase' = IF metadata # Null THEN "locked" ELSE "setup"
    /\ UNCHANGED <<keyRef, metadata, lastUpdated, metaRef, store, calls, rnd>>

\* lockVault()
LockVault ==
    /\ Mounted
    /\ keyRef' = Null
    /\ entries' = <<>>
    /\ error' = NoError
    /\ phase' = IF metadata # Null THEN "locked" ELSE "setup"
    /\ UNCHANGED <<metadata, lastUpdated, metaRef, store, calls, rnd>>

\* resetVault()
ResetVault ==
    /\ Mounted
    /\ keyRef' = Null
    /\ metaRef' = Null
    /\ metadata' = Null
    /\ entries' = <<>>
    /\ lastUpdated' = NoTime
    /\ phase' = "setup"
    /\ error' = NoError
    /\ store' = NoItem
    /\ UNCHANGED <<calls, rnd>>

\* --------------------------------------------------------------- persist
\* Mutant of PersistPlaintext: the collection in state is encrypted, not the
\* one handed to persistEntries.
PersistPlaintext_Stale(nextEntries) == StringifyPayload(entries)

\* The plaintext persistEntries encrypts (line 95).
PersistPlaintext(nextEntries) == StringifyPayload(nextEntries)

\* Mutant of PersistRecord: the record carries the key next to the ciphertext.
PersistRecord_WithKey(meta, enc, t) ==
    [version |-> 1, iterations |-> meta.iterations, salt |-> meta.salt,
     data |-> enc.data, iv |-> enc.iv, lastUpdated |-> t, key |-> enc.data.k]

\* The record persistEntries writes (lines 99-106).
PersistRecord(meta, enc, t) ==
    [version |-> 1, iterations |-> meta.iterations, salt |-> meta.salt,
     data |-> enc.data, iv |-> enc.iv, lastUpdated |-> t]

\* persistEntries(nextEntries) up to `await encryptWithKey(...)`, called by
\* handler `op` that will return `val`; `r` counts the random draws so far.
PersistEntries(op, nextEntries, val, r, result) ==
    IF keyRef = Null \/ metaRef = Null
    THEN /\ result = "Vault is locked"
         /\ rnd' = r
         /\ UNCHANGED calls
    ELSE /\ result = "pending"
         /\ calls' = Suspend([op |-> op, nextEntries |-> nextEntries,
                              currentKey |-> keyRef, meta |-> metaRef,
                              nonce |-> r + 1, val |-> val])
         /\ rnd' = r + 1

MutatingOps == {"addEntry", "updateEntry", "deleteEntry", "importEntries"}

\* Mutant of PersistFailed: setEntries runs before the write is known to
\* have succeeded.
PersistFailed_Optimistic(c, result) ==
    /\ result = "threw"
    /\ entries' = c.nextEntries
    /\ UNCHANGED <<store, lastUpdated>>

\* encryptWithKey or setItem threw: persistEntries and the handler awaiting
\* it throw before setEntries is reached (lines 94-108).
PersistFailed(c, result) ==
    /\ result = "threw"
    /\ UNCHANGED <<store, entries, lastUpdated>>

\* persistEntries resumes after encryptWithKey (lines 99-110), and the
\* handler that awaited it returns; or encryptWithKey or setItem threw.
PersistResumed(c, outcome, result) ==
    /\ c \in InFlight
    /\ c.op \in MutatingOps
    /\ IF outcome = "ok"
       THEN LET enc == encryptWithKey(PersistPlaintext(c.nextEntries),
                                      c.currentKey, c.nonce)
                record == PersistRecord(c.meta, enc, Now)
            IN  /\ store' = StringifyRecord(record)
                /\ entries' = c.nextEntries
                /\ lastUpdated' = record.lastUpdated
                /\ result = "returned"
       ELSE PersistFailed(c, result)
    /\ calls' = Resume(c)
    /\ UNCHANGED <<phase, error, metadata, keyRef, metaRef, rnd>>

\* ------------------------------------------------------------- mutations
\* What callers pass to addEntry: with and without an id of their own.
AddInputs ==
    { [title |-> <<" ", "N">>, username |-> <<"b", " ">>, password |-> <<"y">>,
       url |-> <<"h", " ">>, tags |-> << <<" ">>, <<"t", " ">> >>],
      [id |-> UUID(0), title |-> <<"M">>, username |-> <<"a">>,
       password |-> NoDigitPassword, tags |-> << <<"w">> >>] }

\* addEntry(entry)
AddEntry(entry, result) ==
    /\ Mounted
    /\ CanSuspend
    /\ rnd + 2 <= MaxRnd
    /\ LET fresh == Get(entry, "id") = Undefined
           r == IF fresh THEN rnd + 1 ELSE rnd
           nextEntry ==
               [id |-> IF fresh THEN UUID(r) ELSE entry.id,
                title |-> Trim(entry.title),
                username |-> Trim(entry.username),
                password |-> entry.password,
                url |-> OptTrim(Get(entry, "url")),
                notes |-> OptTrim(Get(entry, "notes")),
                tags |-> TrimTags(entry.tags),
                createdAt |-> ISO(Now),
                updatedAt |-> ISO(Now)]
       IN  PersistEntries("addEntry", entries \o <<nextEntry>>, nextEntry, r, result)
    /\ UNCHANGED <<phase, entries, error, metadata, lastUpdated, keyRef, metaRef,
                   store>>

\* Mutant of FindIndex: an id that matches nothing falls back to the first
\* entry.
FindIndex_Fallback(list, id) ==
    IF \E i \in DOMAIN list : Get(list[i], "id") = id
    THEN CHOOSE i \in DOMAIN list :
            /\ Get(list[i], "id") = id
            /\ \A j \in DOMAIN list : Get(list[j], "id") = id => i <= j
    ELSE IF list # <<>> THEN 1 ELSE 0

\* entries.findIndex((entry) => entry.id === id), 0 for -1.
FindIndex(list, id) ==
    IF \E i \in DOMAIN list : Get(list[i], "id") = id
    THEN CHOOSE i \in DOMAIN list :
            /\ Get(list[i], "id") = id
            /\ \A j \in DOMAIN list : Get(list[j], "id") = id => i <= j
    ELSE 0

\* The ids a caller passes: those it sees in the collection, and one that
\* is in no collection.
MissingId == UUID(-1)
KnownIds == {Get(entries[i], "id") : i \in DOMAIN entries} \cup {MissingId}

UpdateInputs ==
    { [title |-> <<"T", " ">>, tags |-> << <<"v">> >>],
      [id |-> MissingId, password |-> ShortPassword, createdAt |-> ISO(MaxRnd + 2)] }

\* The entry updateEntry puts in place of `current` (lines 251-262).
UpdatedEntry(current, updates, t) ==
    Spread(Spread(current, updates),
           [title |-> Coalesce(OptTrim(Get(updates, "title")), Get(current, "title")),
            username |-> Coalesce(OptTrim(Get(updates, "username")),
                                  Get(current, "username")),
            url |-> Coalesce(OptTrim(Get(updates, "url")), Get(current, "url")),
            notes |-> Coalesce(OptTrim(Get(updates, "notes")), Get(current, "notes")),
            tags |-> IF "tags" \in DOMAIN updates THEN TrimTags(updates.tags)
                     ELSE current.tags,
            updatedAt |-> ISO(t)])

\* updateEntry(id, updates)
UpdateEntry(id, updates, result) ==
    /\ Mounted
    /\ CanSuspend
    /\ rnd + 1 <= MaxRnd
    /\ LET index == FindIndex(entries, id)
       IN  IF index = 0
           THEN /\ result = "Entry not found"
                /\ UNCHANGED <<calls, rnd>>
           ELSE LET nextEntries ==
                        [entries EXCEPT
                           ![index] = UpdatedEntry(entries[index], updates, Now)]
                IN  PersistEntries("updateEntry", nextEntries, nextEntries[index],
                                   rnd, result)
    /\ UNCHANGED <<phase, entries, error, metadata, lastUpdated, keyRef, metaRef,
                   store>>

\* Mutant of Without: only the first entry with the id is removed.
RECURSIVE Without_FirstOnly(_, _)
Without_FirstOnly(list, id) ==
    IF list = <<>> THEN <<>>
    ELSE IF Get(Head(list), "id") = id THEN Tail(list)
         ELSE <<Head(list)>> \o Without_FirstOnly(Tail(list), id)

\* entries.filter((entry) => entry.id !== id)
RECURSIVE Without(_, _)
Without(list, id) ==
    IF list = <<>> THEN <<>>
    ELSE IF Get(Head(list), "id") = id THEN Without(Tail(list), id)
         ELSE <<Head(list)>> \o Without(Tail(list), id)

\* deleteEntry(id)
DeleteEntry(id, result) ==
    /\ Mounted
    /\ CanSuspend
    /\ rnd + 1 <= MaxRnd
    /\ LET nextEntries == Without(entries, id)
       IN  PersistEntries("deleteEntry", nextEntries, nextEntries, rnd, result)
    /\ UNCHANGED <<phase, entries, error, metadata, lastUpdated, keyRef, metaRef,
                   store>>

\* What callers pass to importEntries: an export of an earlier vault, and a
\* hand-made list without ids or dates.
ImportInputs ==
    { <<PriorEntry>>,
      << [title |-> <<"I", " ">>, username |-> <<"c">>,
          password |-> NoSymbolPassword,
          tags |-> << <<"t">> >>] >> }

\* imported.map(...) (lines 281-291); `r` counts the random draws so far.
RECURSIVE Sanitize(_, _, _)
Sanitize(imported, r, t) ==
    IF imported = <<>> THEN <<>>
    ELSE LET entry == Head(imported)
             fresh == Get(entry, "id") = Undefined
             r1 == IF fresh THEN r + 1 ELSE r
             clean ==
                 Spread(entry,
                        [id |-> IF fresh THEN UUID(r1) ELSE entry.id,
                         title |-> Trim(entry.title),
                         username |-> Trim(entry.username),
                         url |-> OptTrim(Get(entry, "url")),
                         notes |-> OptTrim(Get(entry, "notes")),
                         tags |-> IF "tags" \in DOMAIN entry THEN TrimTags(entry.tags)
                                  ELSE <<>>,
                         createdAt |-> Coalesce(Get(entry, "createdAt"), ISO(t)),
                         updatedAt |-> ISO(t)])
         IN  <<clean>> \o Sanitize(Tail(imported), r1, t)

\* The number of ids safeUUID() has to make for a list.
RECURSIVE Drawn(_)
Drawn(imported) ==
    IF imported = <<>> THEN 0
    ELSE (IF Get(Head(imported), "id") = Undefined THEN 1 ELSE 0) + Drawn(Tail(imported))

\* Mutant of ImportEntries: the imported list is added to the collection
\* held, not put in its place.
ImportEntries_Merges(imported, result) ==
    /\ Mounted
    /\ CanSuspend
    /\ rnd + Drawn(imported) + 1 <= MaxRnd
    /\ LET sanitized == Sanitize(imported, rnd, Now)
       IN  PersistEntries("importEntries", entries \o sanitized, sanitized,
                          rnd + Drawn(imported), result)
    /\ UNCHANGED <<phase, entries, error, metadata, lastUpdated, keyRef, metaRef,
                   store>>

\* importEntries(imported)
ImportEntries(imported, result) ==
    /\ Mounted
    /\ CanSuspend
    /\ rnd + Drawn(imported) + 1 <= MaxRnd
    /\ LET sanitized == Sanitize(imported, rnd, Now)
       IN  PersistEntries("importEntries", sanitized, sanitized,
                          rnd + Drawn(imported), result)
    /\ UNCHANGED <<phase, entries, error, metadata, lastUpdated, keyRef, metaRef,
                   store>>

\* ----------------------------------------------------------------- stats
\* The characters [0-9] and [a-zA-Z] of the regular expressions.
Digits == {"0", "1", "2", "3", "4", "5", "6", "7", "8", "9"}
Letters ==
    {"a", "b", "c", "d", "e", "f", "g", "h", "i", "j", "k", "l", "m", "n", "o",
     "p", "q", "r", "s", "t", "u", "v", "w", "x", "y", "z",
     "A", "B", "C", "D", "E", "F", "G", "H", "I", "J", "K", "L", "M", "N", "O",
     "P", "Q", "R", "S", "T", "U", "V", "W", "X", "Y", "Z"}

\* /[0-9]/.test(password) and /[^a-zA-Z0-9]/.test(password)
TestDigit(password) == \E i \in DOMAIN password : password[i] \in Digits
TestSymbol(password) ==
    \E i \in DOMAIN password : password[i] \notin Letters \cup Digits

\* Mutant of WeakPassword: a password is weak only if it fails all three
\* tests.
WeakPassword_AllRules(password) ==
    Len(password) < 14 /\ ~TestDigit(password) /\ ~TestSymbol(password)

\* The filter of weakPasswords (lines 319-323).
WeakPassword(password) ==
    Len(password) < 14 \/ ~TestDigit(password) \/ ~TestSymbol(password)

\* byTag.set(tag, (byTag.get(tag) ?? 0) + 1)
SetTag(byTag, tag) ==
    IF tag \in DOMAIN byTag THEN [byTag EXCEPT ![tag] = @ + 1]
    ELSE byTag @@ (tag :> 1)

\* entry.tags.forEach(...)
RECURSIVE ForEachTag(_, _)
ForEachTag(byTag, tags) ==
    IF tags = <<>> THEN byTag
    ELSE ForEachTag(SetTag(byTag, Head(tags)), Tail(tags))

\* entries.forEach(...), from the empty Map
RECURSIVE ForEachEntry(_, _)
ForEachEntry(byTag, list) ==
    IF list = <<>> THEN byTag
    ELSE ForEachEntry(ForEachTag(byTag, Head(list).tags), Tail(list))

\* The value of the stats memo for a collection.
stats(list) ==
    [total |-> Len(list),
     tags |-> ForEachEntry(<<>>, list),
     weakPasswords |-> Len(SelectSeq(list, LAMBDA entry : WeakPassword(entry.password)))]

\* A render computes the stats memo, giving `result`.
StatsMemo(result) ==
    /\ result = stats(entries)
    /\ UNCHANGED vars

\* ---------------------------------------------------------------- export
\* Mutant of StringifyExport: the text of the stored record is handed out.
StringifyExport_Record(list, t) == store

\* JSON.stringify({ exportedAt: new Date().toISOString(), entries }, null, 2)
StringifyExport(list, t) ==
    <<"json", [exportedAt |-> ISO(t), entries |-> StringifyEntries(list)]>>

\* exportEntries(), returning `result`.
ExportEntries(result) ==
    /\ Mounted
    /\ result = StringifyExport(entries, Now)
    /\ UNCHANGED vars

\* ------------------------------------------------------------ the program
\* A handler is called.
Call ==
    \/ \E password \in Passwords : InitializeVault(password)
    \/ \E password \in Passwords, result \in Results : UnlockVault(password, result)
    \/ LockVault
    \/ ResetVault
    \/ \E entry \in AddInputs, result \in Results : AddEntry(entry, result)
    \/ \E id \in KnownIds, updates \in UpdateInputs, result \in Results :
          UpdateEntry(id, updates, result)
    \/ \E id \in KnownIds, result \in Results : DeleteEntry(id, result)
    \/ \E imported \in ImportInputs, result \in Results :
          ImportEntries(imported, result)
    \/ \E result \in {StringifyExport(entries, Now)} : ExportEntries(result)

\* What the cipher and the store may do to a call that awaits them.
CryptoOutcomes == {"ok", "deriveKey failed", "encrypt failed", "setItem failed"}
PersistOutcomes == {"ok", "encrypt failed", "setItem failed"}

\* A suspended call resumes.
Settle ==
    \/ \E c \in InFlight, outcome \in CryptoOutcomes, result \in Results :
          InitializeResumed(c, outcome, result)
    \/ \E c \in InFlight, result \in Results : UnlockResumed(c, result)
    \/ \E c \in InFlight, outcome \in PersistOutcomes, result \in Results :
          PersistResumed(c, outcome, result)

Next ==
    \/ Bootstrap
    \/ Call
    \/ Settle
    \/ \E result \in {stats(entries)} : StatsMemo(result)

Spec == Init /\ [][Next]_vars

\* The program when every await settles: key derivation, encryption,
\* decryption and the store each end, with a value or an error.
FairSpec == Spec /\ WF_vars(Settle)

\* The same program with a caller that awaits every call before the next.
SeqNext ==
    \/ Bootstrap
    \/ (NoCallInFlight /\ Call)
    \/ Settle
    \/ \E result \in {stats(entries)} : StatsMemo(result)

SeqSpec == Init /\ [][SeqNext]_vars

\* ============================================================== properties
\* Two collections hold the same entries in the same order: each property
\* reads the same in both (an absent property reads as undefined).
SameEntry(a, b) ==
    \A f \in (DOMAIN a) \cup (DOMAIN b) : Get(a, f) = Get(b, f)

SameEntries(x, y) ==
    /\ Len(x) = Len(y)
    /\ \A i \in DOMAIN x : SameEntry(x[i], y[i])

\* The master password of the vault a record belongs to: the one its
\* ciphertext was made under.
VaultPassword(record) == record.data.k.pw

\* The record differs from what was written: in its ciphertext or its nonce.
Tampered(record) == ~record.data.intact \/ record.iv # record.data.n

\* The entries the stored record gives under a key, if it opens.
StoreOpensTo(cryptoKey, list) ==
    LET record == parseRecord(store)
    IN  /\ record # Null
        /\ cryptoKey # Null
        /\ UnlockPayload(record, cryptoKey).ok
        /\ SameEntries(PayloadEntries(UnlockPayload(record, cryptoKey).payload), list)

\* C1: whenever phase is not 'unlocked', the in-memory collection is empty
\* and no key is held.
C1_NothingHeldUnlessUnlocked ==
    phase # "unlocked" => (entries = <<>> /\ keyRef = Null)

\* C2: an unlockVault call with a password other than the vault's returns
\* false, does not set phase 'unlocked', and installs neither entries nor key.
C2_WrongPasswordNeverUnlocks ==
    [][\A c \in InFlight, result \in Results :
          (/\ c.op = "unlockVault"
           /\ c.password # VaultPassword(c.record)
           /\ UnlockResumed(c, result))
          => /\ result = "false"
             /\ phase' # "unlocked"
             /\ entries' = entries
             /\ keyRef' = keyRef]_vars

\* C2 witness: the vault of password "p" is in the store, intact, and an
\* unlock has just failed on it.
C2_Witness ==
    /\ store = StringifyRecord(PriorVault)
    /\ phase = "locked"
    /\ error = UnlockError
    /\ entries = <<>>
    /\ keyRef = Null
    /\ NoCallInFlight

\* C3: round trip.  When a caller that awaits its calls locks an unlocked
\* vault holding E under the key of password p, the store is such that
\* unlockVault(p) returns true and loads exactly E.
C3_RoundTrip ==
    [][(/\ LockVault
        /\ phase = "unlocked"
        /\ keyRef # Null)
       => LET record == parseRecord(store')
          IN  /\ record # Null
              /\ UnlockWith(record, keyRef.pw).ok
              /\ SameEntries(PayloadEntries(UnlockWith(record, keyRef.pw).payload),
                             entries)]_vars

\* C3 witness: an entry added in this session has come back from the store
\* (JSON has dropped its undefined notes) next to the earlier one.
C3_Witness ==
    /\ phase = "unlocked"
    /\ NoCallInFlight
    /\ Len(entries) = 2
    /\ entries[2].id = UUID(1)
    /\ "notes" \notin DOMAIN entries[2]

\* C4: when the stored ciphertext or nonce differs from what was written,
\* unlockVault returns false with the generic error, whatever the password,
\* and loads nothing.
C4_TamperedNeverUnlocks ==
    [][\A c \in InFlight, result \in Results :
          (/\ c.op = "unlockVault"
           /\ Tampered(c.record)
           /\ UnlockResumed(c, result))
          => /\ result = "false"
             /\ error' = UnlockError
             /\ phase' = "locked"
             /\ entries' = entries
             /\ keyRef' = keyRef]_vars

\* C4 witness: an unlock has failed on a tampered record.
C4_Witness ==
    /\ parseRecord(store) # Null
    /\ Tampered(parseRecord(store))
    /\ phase = "locked"
    /\ error = UnlockError
    /\ NoCallInFlight

\* C5: whenever unlockVault returns false, phase is 'locked', the in-memory
\* collection is empty, no key is held and the store is unchanged.
C5_FailedUnlockLeavesNothing ==
    [][\A result \in Results :
          (/\ result = "false"
           /\ \/ \E password \in Passwords : UnlockVault(password, result)
              \/ \E c \in InFlight : UnlockResumed(c, result))
          => /\ phase' = "locked"
             /\ entries' = <<>>
             /\ keyRef' = Null
             /\ store' = store]_vars

\* C6: every unlockVault call that fails, for whatever reason (no parsable
\* record, a wrong password, a tampered ciphertext or nonce, a payload that
\* is no JSON), returns false and sets the same error message.
C6_FailuresLookAlike ==
    [][/\ \A password \in Passwords, result \in Results :
             (parseRecord(store) = Null /\ UnlockVault(password, result))
             => (result = "false" /\ error' = UnlockError)
       /\ \A c \in InFlight, result \in Results :
             (/\ c.op = "unlockVault"
              /\ ~UnlockWith(c.record, c.password).ok
              /\ UnlockResumed(c, result))
             => (result = "false" /\ error' = UnlockError)]_vars

\* C6 witness: an unlock has failed on a record whose plaintext is no JSON.
C6_Witness ==
    /\ store = StringifyRecord(PriorRecord(Garbage))
    /\ error = UnlockError
    /\ phase = "locked"
    /\ NoCallInFlight

\* The fields of a stored record, and what each may hold: nothing but the
\* version, the iteration count, the encoded salt, the ciphertext, the nonce
\* and the time of writing.
RecordFields == {"version", "iterations", "salt", "data", "iv", "lastUpdated"}

OnlyCiphertext(text) ==
    /\ IsJSON(text)
    /\ DOMAIN Parse(text) = RecordFields
    /\ LET record == Parse(text)
       IN  /\ record.version = 1
           /\ record.iterations = DEFAULT_ITERATIONS
           /\ record.salt = bufferToBase64(base64ToArrayBuffer(record.salt))
           /\ record.salt = bufferToBase64(record.data.k.salt)
           /\ record.iv = record.data.n
           /\ record.lastUpdated \in 1..(MaxRnd + 1)

\* C7: whatever the program writes to the store is nothing (removal) or a
\* record of exactly the six fields, with key, password and plaintext
\* nowhere but inside the ciphertext.
C7_StoreHoldsOnlyCiphertext ==
    [][store' # store => (store' = NoItem \/ OnlyCiphertext(store'))]_vars

\* C7 witness: a record written by a mutation of this session is in the store.
C7_Witness ==
    /\ parseRecord(store) # Null
    /\ parseRecord(store).lastUpdated >= 1
    /\ PayloadEntries(Parse(parseRecord(store).data.pt)) # <<>>

\* C8: whenever phase is 'unlocked' and no call is in flight, the in-memory
\* collection is what the stored record decrypts to under the held key.
C8_MemoryEqualsDisk ==
    (phase = "unlocked" /\ NoCallInFlight) => StoreOpensTo(keyRef, entries)

\* C9: when encryption or the store write fails under a mutation, the call
\* throws and neither the in-memory collection nor the store changes; the
\* store changes under a mutation only when encryption has succeeded.
C9_FailedPersistChangesNothing ==
    [][\A c \in InFlight, outcome \in PersistOutcomes, result \in Results :
          PersistResumed(c, outcome, result)
          => /\ outcome # "ok" =>
                  (result = "threw" /\ entries' = entries /\ store' = store)
             /\ store' # store => outcome = "ok"]_vars

\* C9 witness: a mutation is suspended in persistEntries with a collection
\* that differs from the one in memory, so a failure now would show.
C9_Witness ==
    \E c \in InFlight :
        /\ c.op \in MutatingOps
        /\ c.nextEntries # entries
        /\ phase = "unlocked"

\* C10: no update is lost.  When an addEntry completes while the vault has
\* stayed unlocked under the same key, the collection is the one in memory
\* just before, with the new entry appended: what a mutation that overlapped
\* it has put there is still there.
C10_NoLostUpdate ==
    [][\A c \in InFlight, result \in Results :
          (/\ c.op = "addEntry"
           /\ phase = "unlocked"
           /\ keyRef = c.currentKey
           /\ PersistResumed(c, "ok", result))
          => entries' = entries \o <<c.val>>]_vars

\* A mutating handler is called and its step ends with `result`.
MutationCalled(result) ==
    \/ \E entry \in AddInputs : AddEntry(entry, result)
    \/ \E id \in KnownIds, updates \in UpdateInputs : UpdateEntry(id, updates, result)
    \/ \E id \in KnownIds : DeleteEntry(id, result)
    \/ \E imported \in ImportInputs : ImportEntries(imported, result)

\* C11: while phase is 'initializing' or 'unlocking', a call of
\* initializeVault, unlockVault, lockVault or a mutating operation changes
\* neither phase, key, entries nor the store.
C11_TransientRejectsCalls ==
    [][(/\ phase \in {"initializing", "unlocking"}
        /\ \/ \E password \in Passwords : InitializeVault(password)
           \/ \E password \in Passwords, result \in Results :
                 UnlockVault(password, result)
           \/ LockVault
           \/ \E result \in Results : MutationCalled(result))
       => UNCHANGED <<phase, keyRef, entries, store>>]_vars

\* The phase changes of section 4.4; any phase may also go to 'setup', by
\* resetVault only.
LegalTransitions ==
    { <<"initializing", "setup">>, <<"initializing", "locked">>,
      <<"setup", "unlocking">>, <<"locked", "unlocking">>,
      <<"unlocking", "unlocked">>, <<"unlocking", "locked">>,
      <<"unlocking", "setup">>, <<"unlocked", "locked">> }

\* C12: every change of phase is one of the legal transitions, or goes to
\* 'setup' by resetVault.
C12_OnlyLegalTransitions ==
    [][phase' # phase
       => \/ <<phase, phase'>> \in LegalTransitions
          \/ (ResetVault /\ phase' = "setup")]_vars

\* C13: initializeVault called in a phase other than 'setup' leaves store,
\* metadata, key, entries and phase unchanged, and an initializeVault call
\* never overwrites a record that is in the store.
C13_InitializeOnlyFromSetup ==
    [][/\ \A password \in Passwords :
             (phase # "setup" /\ InitializeVault(password))
             => UNCHANGED <<store, metadata, keyRef, entries, phase>>
       /\ \A c \in InFlight, outcome \in {"ok", "deriveKey failed", "encrypt failed",
                                          "setItem failed"}, result \in Results :
             (parseRecord(store) # Null /\ InitializeResumed(c, outcome, result))
             => store' = store]_vars

\* C14: in every state where phase is not 'unlocked', a mutating call fails
\* with the vault-locked error and changes neither the store nor the
\* in-memory collection, and no mutation completes successfully.
C14_MutationsOnlyUnlocked ==
    [][/\ \A result \in Results :
             (phase # "unlocked" /\ MutationCalled(result))
             => (result = "Vault is locked" /\ UNCHANGED <<store, entries>>)
       /\ \A c \in InFlight, outcome \in {"ok", "encrypt failed", "setItem failed"},
             result \in Results :
             (phase # "unlocked" /\ PersistResumed(c, outcome, result))
             => (result # "returned" /\ UNCHANGED <<store, entries>>)]_vars

\* C15: resetVault leaves the store empty, no key, no metadata, no entries
\* and phase 'setup'; and an empty store gets a record again only by an
\* initializeVault call that completes.
C15_ResetEmptiesForGood ==
    [][/\ ResetVault
          => /\ store' = NoItem
             /\ keyRef' = Null
             /\ metadata' = Null
             /\ metaRef' = Null
             /\ entries' = <<>>
             /\ phase' = "setup"
       /\ (store = NoItem /\ store' # NoItem)
          => \E c \in InFlight, result \in Results :
                InitializeResumed(c, "ok", result)]_vars

\* C16: lockVault leaves the store, metadata and lastUpdated unchanged,
\* discards the key, empties the collection, and sets phase 'locked' if
\* metadata is held and 'setup' otherwise.
C16_LockFrame ==
    [][LockVault
       => /\ store' = store
          /\ keyRef' = Null
          /\ entries' = <<>>
          /\ phase' = (IF metadata = Null THEN "setup" ELSE "locked")
          /\ metadata' = metadata
          /\ lastUpdated' = lastUpdated]_vars

\* C16 witness: a vault written to in this session has been locked.
C16_Witness ==
    /\ phase = "locked"
    /\ error = NoError
    /\ keyRef = Null
    /\ entries = <<>>
    /\ metadata # Null
    /\ lastUpdated >= 1
    /\ NoCallInFlight

\* The store holds a record: an item that parses.
HasRecord(text) == text # NoItem /\ IsJSON(text)

\* C17: bootstrap ends in 'setup' with null metadata exactly when the store
\* has no record, and in 'locked' with the record's salt and iterations as
\* metadata when it has one; it holds no key, loads no entries and leaves the
\* store as it is.
C17_BootstrapReadsOnly ==
    [][Bootstrap
       => /\ ~HasRecord(store) <=> (phase' = "setup" /\ metadata' = Null)
          /\ HasRecord(store)
             => /\ phase' = "locked"
                /\ metadata' = [salt |-> Parse(store).salt,
                                iterations |-> Parse(store).iterations]
          /\ keyRef' = Null
          /\ entries' = <<>>
          /\ store' = store]_vars

\* C17 witness: bootstrap has found the earlier session's record.
C17_Witness ==
    /\ phase = "locked"
    /\ rnd = 0
    /\ NoCallInFlight
    /\ error = NoError
    /\ keyRef = Null
    /\ entries = <<>>
    /\ store = StringifyRecord(PriorVault)
    /\ metadata = [salt |-> PriorVault.salt, iterations |-> PriorVault.iterations]
    /\ lastUpdated = PriorVault.lastUpdated

\* C18: an initializeVault call that completes leaves a record of version 1
\* with the default iteration count and a salt that is neither the one of
\* the record it replaces nor the earlier session's; the record opens under
\* the password given, and under the key now held, to the empty collection;
\* metadata are its salt and iterations, the collection in memory is empty,
\* lastUpdated is the record's and phase is 'unlocked'.
C18_InitializeInstalls ==
    [][\A c \in InFlight, result \in Results :
          InitializeResumed(c, "ok", result)
          => LET record == parseRecord(store')
             IN  /\ record # Null
                 /\ record.version = 1
                 /\ record.iterations = DEFAULT_ITERATIONS
                 /\ record.salt # PriorVault.salt
                 /\ parseRecord(store) # Null => record.salt # parseRecord(store).salt
                 /\ UnlockWith(record, c.password).ok
                 /\ UnlockWith(record, c.password).cryptoKey = keyRef'
                 /\ PayloadEntries(UnlockWith(record, c.password).payload) = <<>>
                 /\ metadata' = [salt |-> record.salt, iterations |-> record.iterations]
                 /\ entries' = <<>>
                 /\ lastUpdated' = record.lastUpdated
                 /\ phase' = "unlocked"]_vars

\* C18 witness: a vault made in this session is open and empty.
C18_Witness ==
    /\ phase = "unlocked"
    /\ NoCallInFlight
    /\ entries = <<>>
    /\ keyRef # Null
    /\ keyRef.salt >= 1
    /\ parseRecord(store) # Null
    /\ metadata = [salt |-> parseRecord(store).salt,
                   iterations |-> parseRecord(store).iterations]
    /\ lastUpdated = parseRecord(store).lastUpdated

\* C19: when key derivation, encryption or the store write fails in
\* initializeVault, the call throws, phase is 'setup', the error message is
\* set, and store, key and metadata are what they were.
C19_FailedInitializeWritesNothing ==
    [][\A c \in InFlight,
          outcome \in {"deriveKey failed", "encrypt failed", "setItem failed"},
          result \in Results :
          InitializeResumed(c, outcome, result)
          => /\ result = "threw"
             /\ phase' = "setup"
             /\ error' = "Unable to initialize vault. Please try again."
             /\ store' = store
             /\ keyRef' = keyRef
             /\ metadata' = metadata
             /\ metaRef' = metaRef]_vars

\* C19 witness: an initializeVault call has failed.
C19_Witness ==
    /\ phase = "setup"
    /\ error = "Unable to initialize vault. Please try again."
    /\ NoCallInFlight

\* No entry of the collection has this id.
Absent(id) == \A i \in DOMAIN entries : Get(entries[i], "id") # id

\* C20: updateEntry with an id that is in no entry of the collection can end
\* only by throwing the not-found error, and with nothing suspended that
\* could change the collection, the store or lastUpdated later.
C20_UpdateOfAbsentIdNotFound ==
    \A updates \in UpdateInputs, result \in Results :
        (Absent(MissingId) /\ ENABLED UpdateEntry(MissingId, updates, result))
        => /\ result = "Entry not found"
           /\ ~ENABLED (UpdateEntry(MissingId, updates, result) /\ ~UNCHANGED vars)

\* C20 witness: an open vault with entries, none of them with the id that is
\* asked for, and room for a call.
C20_Witness ==
    /\ phase = "unlocked"
    /\ entries # <<>>
    /\ Absent(MissingId)
    /\ NoCallInFlight
    /\ rnd < MaxRnd

\* C21: an updateEntry that completes, for a caller that awaits its calls,
\* leaves the collection as long as it was, every entry with the id and
\* createdAt it had, and at most one entry changed.
C21_UpdateKeepsIdentity ==
    [][\A c \in InFlight, result \in Results :
          (c.op = "updateEntry" /\ PersistResumed(c, "ok", result))
          => /\ Len(entries') = Len(entries)
             /\ \A i \in DOMAIN entries :
                   /\ Get(entries'[i], "id") = Get(entries[i], "id")
                   /\ Get(entries'[i], "createdAt") = Get(entries[i], "createdAt")
             /\ Cardinality({i \in DOMAIN entries : entries'[i] # entries[i]}) <= 1]_vars

\* No two entries of the list have the same id.
UniqueIds(list) ==
    \A i, j \in DOMAIN list :
        Get(list[i], "id") = Get(list[j], "id") => i = j

\* The collection inside the stored record, as far as it can be read.
StoredEntries ==
    LET record == parseRecord(store)
    IN  IF record # Null /\ IsJSON(record.data.pt)
        THEN PayloadEntries(Parse(record.data.pt))
        ELSE <<>>

\* C22: no two entries of the in-memory collection, and no two of the
\* collection inside the stored record, have the same id.
C22_IdsUnique ==
    UniqueIds(entries) /\ UniqueIds(StoredEntries)

\* The entries of a list whose id is not the one given, in their order.
Kept(list, id) ==
    LET keeps == {i \in DOMAIN list : Get(list[i], "id") # id}
        rank(i) == Cardinality({j \in keeps : j <= i})
    IN  [n \in 1..Cardinality(keeps) |-> list[CHOOSE i \in keeps : rank(i) = n]]

\* The suspended call that a step has added.
Started(c) == CopiesIn(c, calls') = CopiesIn(c, calls) + 1

\* C23: for a caller that awaits its calls, deleteEntry(id) on an unlocked
\* vault does not fail; it persists the entries whose id is not `id`, in
\* their order, which for an absent id are the entries as they were and on
\* which a second deleteEntry(id) computes the same collection again; when
\* its write succeeds, that collection is the in-memory collection and what
\* the stored record decrypts to.
C23_DeleteIdempotent ==
    [][/\ \A id \in KnownIds, result \in Results :
             (phase = "unlocked" /\ DeleteEntry(id, result))
             => /\ result = "pending"
                /\ \E c \in BagToSet(calls') :
                      /\ Started(c)
                      /\ c.op = "deleteEntry"
                      /\ c.nextEntries = Kept(entries, id)
                      /\ Absent(id) => SameEntries(c.nextEntries, entries)
                      /\ Without(c.nextEntries, id) = c.nextEntries
       /\ \A c \in InFlight, result \in Results :
             (c.op = "deleteEntry" /\ PersistResumed(c, "ok", result))
             => /\ result = "returned"
                /\ SameEntries(entries', c.nextEntries)
                /\ (StoreOpensTo(c.currentKey, c.nextEntries))']_vars

\* A deleteEntry of an id that no entry has is under way on a vault that
\* holds entries.
C23_Witness ==
    /\ phase = "unlocked"
    /\ entries # <<>>
    /\ \E c \in InFlight : c.op = "deleteEntry" /\ c.nextEntries = entries

ExportOutputs == {StringifyExport(entries, Now), StringifyPayload(entries), store}

\* C25: whatever exportEntries returns is a JSON text with the fields
\* exportedAt and entries and no other (no ciphertext, nonce or salt), its
\* entries are the in-memory entries in their order, and the call changes no
\* variable: not the store, phase, key, metadata, entries or lastUpdated.
C25_ExportMirrorsEntries ==
    \A result \in ExportOutputs :
        ENABLED ExportEntries(result)
        => /\ IsJSON(result)
           /\ DOMAIN Parse(result) = {"exportedAt", "entries"}
           /\ DOMAIN Parse(result) \cap {"data", "iv", "salt"} = {}
           /\ SameEntries(Parse(result).entries, entries)
           /\ ~ENABLED (ExportEntries(result) /\ ~UNCHANGED vars)

\* exportEntries can be called on an unlocked vault that holds an entry
\* with an optional property unset, over a stored record.
C25_Witness ==
    /\ phase = "unlocked"
    /\ store # NoItem
    /\ \E i \in DOMAIN entries : Get(entries[i], "url") = Undefined
    /\ ENABLED ExportEntries(StringifyExport(entries, Now))

\* The tags that occur in the collection, and the places where one occurs.
AllTags ==
    UNION {{entries[i].tags[j] : j \in DOMAIN entries[i].tags} : i \in DOMAIN entries}

Occurrences(tag) ==
    UNION {{<<i, j>> : j \in {k \in DOMAIN entries[i].tags : entries[i].tags[k] = tag}} :
              i \in DOMAIN entries}

\* A password is under 14 characters, or none of its characters is a digit,
\* or all of them are letters or digits.
IsWeak(password) ==
    LET chars == {password[i] : i \in DOMAIN password}
    IN  \/ Len(password) <= 13
        \/ chars \cap Digits = {}
        \/ chars \subseteq Letters \cup Digits

\* Values a render could get for stats: that of the collection in memory,
\* of the stored one, and of an empty one.
StatsOutputs == {stats(entries), stats(StoredEntries), stats(<<>>)}

\* C26: what stats evaluates to has total the number of entries, for each
\* tag the number of its occurrences in the entries and no count for any
\* other string, and weakPasswords the number of entries whose password is
\* under 14 characters or has no digit or has nothing but letters and
\* digits; computing it changes no variable, the store included.
C26_StatsCountEntries ==
    \A result \in StatsOutputs :
        ENABLED StatsMemo(result)
        => /\ result.total = Cardinality(DOMAIN entries)
           /\ DOMAIN result.tags = AllTags
           /\ \A tag \in AllTags :
                 result.tags[tag] = Cardinality(Occurrences(tag))
           /\ result.weakPasswords =
                 Cardinality({i \in DOMAIN entries : IsWeak(entries[i].password)})
           /\ ~ENABLED (StatsMemo(result) /\ ~UNCHANGED vars)

\* stats is computed for a collection with a strong password, a password
\* weak by one rule alone, and a tag that occurs twice.
C26_Witness ==
    /\ \E i, j \in DOMAIN entries :
          /\ ~IsWeak(entries[i].password)
          /\ IsWeak(entries[j].password)
          /\ Len(entries[j].password) >= 14
    /\ \E tag \in AllTags : Cardinality(Occurrences(tag)) = 2
    /\ ENABLED StatsMemo(stats(entries))

\* C27: an addEntry that completes, for a caller that awaits its calls,
\* returns an entry with createdAt equal to updatedAt and an id that no entry
\* of the collection has; the collection is then the previous one with that
\* entry appended, and the stored record decrypts to it.
C27_AddAppendsFreshEntry ==
    [][\A c \in InFlight, result \in Results :
          (c.op = "addEntry" /\ PersistResumed(c, "ok", result))
          => /\ result = "returned"
             /\ c.val.createdAt = c.val.updatedAt
             /\ Absent(c.val.id)
             /\ entries' = entries \o <<c.val>>
             /\ c.nextEntries = entries \o <<c.val>>
             /\ (StoreOpensTo(c.currentKey, c.nextEntries))']_vars

\* The point of the clock a timestamp stands for.
Time(iso) == iso[2]

\* C28: every entry of the in-memory collection has updatedAt >= createdAt.
C28_UpdatedNotBeforeCreated ==
    \A i \in DOMAIN entries :
        Time(entries[i].updatedAt) >= Time(entries[i].createdAt)

\* C29: a stored value that does not parse is overwritten or removed only
\* by resetVault, or after an error has been set in the error state.
C29_MalformedRecordNotDestroyed ==
    [][(parseRecord(store) = Null /\ store # NoItem /\ store' # store)
       => (ResetVault \/ error # NoError)]_vars

\* C30: when every await settles, a phase 'unlocking' always leads to
\* 'setup', 'locked' or 'unlocked', whatever calls are made meanwhile; and
\* while no call is in flight the phase is not 'unlocking'.
C30_UnlockingResolves ==
    /\ [](NoCallInFlight => phase # "unlocking")
    /\ (phase = "unlocking") ~> (phase \in {"setup", "locked", "unlocked"})

\* Two calls that set phase 'unlocking' are in flight at once, an
\* initializeVault among them.
C30_Witness ==
    /\ phase = "unlocking"
    /\ BagCardinality(calls) = 2
    /\ \A c \in InFlight : c.op \in {"initializeVault", "unlockVault"}
    /\ \E c \in InFlight : c.op = "initializeVault"

\* C31: whenever phase is 'unlocked', a key is held and metadata is held,
\* in the state and in the ref, and no call of a mutating operation can end
\* with 'Vault is locked'.
C31_UnlockedHoldsKey ==
    phase = "unlocked"
    => /\ keyRef # Null
       /\ metadata # Null
       /\ metaRef # Null
       /\ ~ENABLED MutationCalled("Vault is locked")

\* A mutating operation called on an unlocked vault is suspended at its
\* await, with the key that is held.
C31_Witness ==
    /\ phase = "unlocked"
    /\ \E c \in InFlight : c.op \in MutatingOps /\ c.currentKey = keyRef

\* C32: whenever phase is 'unlocked' and no call is in flight, the store
\* holds a record with the salt and iteration count of the metadata held,
\* and its ciphertext opens under the key held.
C32_StoreMatchesHeldKey ==
    (phase = "unlocked" /\ NoCallInFlight)
    => LET record == parseRecord(store)
       IN  /\ record # Null
           /\ metadata # Null
           /\ record.salt = metadata.salt
           /\ record.iterations = metadata.iterations
           /\ keyRef # Null
           /\ UnlockPayload(record, keyRef).ok

\* C33: once lockVault has discarded the key (metadata is kept, no key is
\* held), the persist of a mutation that was suspended before the lock does
\* not install entries when it resumes.
C33_LockNotUndoneByPersist ==
    [][\A c \in InFlight, result \in Results :
          (keyRef = Null /\ metadata # Null /\ PersistResumed(c, "ok", result))
          => entries' = <<>>]_vars

\* C34: whenever no call is in flight and phase is 'locked', metadata is
\* held and the store holds a record.
C34_LockedHasRecord ==
    (phase = "locked" /\ NoCallInFlight)
    => (metadata # Null /\ parseRecord(store) # Null)
====
